---- MODULE Spec2Model ----
(***************************************************************************)
(* Model of the ANEEL BDGD pipeline (src/main.py, src/config.py): the     *)
(* per-source load + indexed join into the accumulating relation          *)
(* processed_data, the post-merge spatial index / coordinate step, the    *)
(* in-database analytics and the arithmetic grid aggregation, as driven   *)
(* by run_full_pipeline.                                                   *)
(*                                                                         *)
(* The store is SQLite: a relation is a record [cols, rows] with the      *)
(* rows positional, as INSERT INTO ... SELECT s.*, c.* is positional.     *)
(* A value is a record [t, n, d, s]:                                       *)
(*   t = "null"                      SQL NULL                              *)
(*   t = "int",  n                   INTEGER n                             *)
(*   t = "real", n, d                REAL, the exact rational n/d          *)
(*   t = "text", s                   TEXT, s the sequence of characters    *)
(*   t = "blob", n, d, s = <<crs>>   a WKB point (x = n, y = d); WKB holds *)
(*        no CRS, s records the frame the coordinates are really in (a    *)
(*        history field no statement of the program reads)                 *)
(*   t = "geom", n, d, s = <<crs, srid>>  a SpatiaLite point geometry      *)
(*   t = "polygon", n, d             a cell of the lattice, by position    *)
(* REAL arithmetic is exact, but for the one place where IEEE rounding     *)
(* decides an outcome: the FLOOR of the grid index (see OnLatticeLine).    *)
(***************************************************************************)
EXTENDS Integers, Sequences, FiniteSets, TLC

\* ------------------------------------------------------------------ bounds
\* Longest list of geodatabase paths handed to load_and_union_data.
MaxSources == 2

\* Most points of a relation handed to the three grid strategies.
MaxPoints == 3

\* ------------------------------------------------------------------ config
REPROJECT_TARGET == "EPSG:4326"
SPATIAL_KEY == "COD_ID"
CONSUMER_KEY == "PN_CON"
CONSUMER_LAYERS == <<"UCAT_tab", "UCMT_tab", "UCBT_tab">>
AGGREGATION_COLUMN == "ENE_TOT"
AGGREGATION_FUNCTION == "sum"
\* grid_cell_size_deg = GRID_CELL_SIZE / 111.32, in the model's coordinate
\* unit (one unit = half a cell of the configured 1 km grid).
GRID_CELL_SIZE_DEG == 2

\* ------------------------------------------------------------------ values
Null == [t |-> "null", n |-> 0, d |-> 1, s |-> <<>>]
IntV(i) == [t |-> "int", n |-> i, d |-> 1, s |-> <<>>]
TextV(cs) == [t |-> "text", n |-> 0, d |-> 1, s |-> cs]
BlobV(crs, x, y) == [t |-> "blob", n |-> x, d |-> y, s |-> <<crs>>]

RECURSIVE Gcd(_, _)
Gcd(a, b) == IF b = 0 THEN a ELSE Gcd(b, a % b)

Abs(i) == IF i < 0 THEN -i ELSE i

\* The REAL n/d in lowest terms (d > 0).
RealV(num, den) ==
    LET g == Gcd(Abs(num), den)
    IN  [t |-> "real", n |-> num \div g, d |-> den \div g, s |-> <<>>]

Digits == <<"0", "1", "2", "3", "4", "5", "6", "7", "8", "9">>
IsDigit(c) == \E i \in 1..10 : Digits[i] = c
DigitVal(c) == (CHOOSE i \in 1..10 : Digits[i] = c) - 1

RECURSIVE Pow10(_)
Pow10(k) == IF k = 0 THEN 1 ELSE 10 * Pow10(k - 1)

\* Value of a sequence of digit characters.
RECURSIVE DigitsVal(_)
DigitsVal(cs) ==
    IF cs = <<>> THEN 0
    ELSE 10 * DigitsVal(SubSeq(cs, 1, Len(cs) - 1)) + DigitVal(cs[Len(cs)])

\* Number of leading digit characters of cs.
RECURSIVE DigitRun(_)
DigitRun(cs) ==
    IF cs = <<>> \/ ~IsDigit(Head(cs)) THEN 0 ELSE 1 + DigitRun(Tail(cs))

\* SQLite's numeric prefix of a text: digits, then optionally "." and digits
\* (signs, exponents and blanks do not occur in the modelled data).
\* Returns [len, num, den]: the prefix length and its value num/den.
NumPrefix(cs) ==
    LET ip == DigitRun(cs)
        rest == SubSeq(cs, ip + 1, Len(cs))
        hasDot == ip > 0 /\ rest # <<>> /\ Head(rest) = "."
        fp == IF hasDot THEN DigitRun(Tail(rest)) ELSE 0
        frac == IF hasDot THEN SubSeq(rest, 2, 1 + fp) ELSE <<>>
    IN  [len |-> IF hasDot THEN ip + 1 + fp ELSE ip,
         num |-> DigitsVal(SubSeq(cs, 1, ip)) * Pow10(fp) + DigitsVal(frac),
         den |-> Pow10(fp)]

\* A text that is a well-formed numeric literal as a whole.
IsNumericLiteral(cs) == cs # <<>> /\ NumPrefix(cs).len = Len(cs)

\* CAST(v AS REAL): NULL stays NULL; a text yields its longest numeric
\* prefix, 0.0 when it has none.
CastReal(v) ==
    CASE v.t = "null" -> Null
      [] v.t = "int" -> RealV(v.n, 1)
      [] v.t = "real" -> v
      [] v.t = "text" -> LET p == NumPrefix(v.s) IN RealV(p.num, p.den)
      [] OTHER -> RealV(0, 1)

\* COALESCE(v, w)
Coalesce(v, w) == IF v.t = "null" THEN w ELSE v

\* a + b and a / k on non-null REALs.
RealAdd(a, b) == RealV(a.n * b.d + b.n * a.d, a.d * b.d)
RealDiv(a, k) == RealV(a.n, a.d * k)

\* s.key = c.key of the join: the columns to_sql declares are BIGINT for an
\* integer key and TEXT for a string key; comparing an INTEGER column with
\* a TEXT column applies NUMERIC affinity to the text, which then compares
\* as a number when it is a well-formed literal. NULL equals nothing.
SqlEq(a, b) ==
    CASE a.t = "null" \/ b.t = "null" -> FALSE
      [] a.t = "int" /\ b.t = "int" -> a.n = b.n
      [] a.t = "text" /\ b.t = "text" -> a.s = b.s
      [] a.t = "int" /\ b.t = "text" ->
            /\ IsNumericLiteral(b.s)
            /\ LET p == NumPrefix(b.s) IN p.num = a.n * p.den
      [] a.t = "text" /\ b.t = "int" ->
            /\ IsNumericLiteral(a.s)
            /\ LET p == NumPrefix(a.s) IN p.num = b.n * p.den
      [] OTHER -> FALSE

\* ------------------------------------------------------------------ relations
NoTable == [cols |-> <<"-">>, rows |-> <<>>]
Exists(tab) == tab # NoTable
HasCol(tab, c) == \E i \in 1..Len(tab.cols) : tab.cols[i] = c
ColIdx(tab, c) == CHOOSE i \in 1..Len(tab.cols) : tab.cols[i] = c
Cell(tab, row, c) == row[ColIdx(tab, c)]

\* ALTER TABLE tab ADD COLUMN c [DEFAULT dflt]
AddColumn(tab, c, dflt) ==
    [cols |-> Append(tab.cols, c),
     rows |-> [i \in 1..Len(tab.rows) |-> Append(tab.rows[i], dflt)]]

\* UPDATE tab SET c = <expr>, vals[i] being the expression's value on row i.
UpdateCol(tab, c, vals) ==
    [tab EXCEPT !.rows =
        [i \in 1..Len(tab.rows) |->
            [tab.rows[i] EXCEPT ![ColIdx(tab, c)] = vals[i]]]]

\* ------------------------------------------------------------------ CRS
\* A layer's CRS; NoCRS is a layer that declares none (fiona hands back an
\* empty CRS object, which is not None).
None == "None"
NoCRS == "NoCRS"

\* pyproj.CRS(crs).to_epsg(); 0 stands for the CRSError of an empty CRS.
ToEpsg(crs) ==
    CASE crs = "EPSG:4326" -> 4326
      [] crs = "EPSG:4674" -> 4674
      [] crs = "EPSG:31983" -> 31983
      [] OTHER -> 0

\* The coordinates of one place differ from frame to frame: each frame is
\* the EPSG:4326 frame shifted by its own offset.
FrameOffset(crs) ==
    CASE crs = "EPSG:4326" -> 0
      [] crs = "EPSG:4674" -> 3
      [] crs = "EPSG:31983" -> 50
      [] OTHER -> 0

\* A shapely point [kind, x, y]; kind is "point", or "none" (a null
\* reference), "empty" or "invalid".
Point(x, y) == [kind |-> "point", x |-> x, y |-> y]
BadGeom(kind) == [kind |-> kind, x |-> 0, y |-> 0]

\* GeoSeries.to_crs / SpatiaLite Transform: the same place in frame `to`.
TransformXY(from, to, v) == v - FrameOffset(from) + FrameOffset(to)

is_valid_geometry(geom) ==
    geom.kind # "none" /\ geom.kind # "empty" /\ geom.kind # "invalid"

\* ------------------------------------------------------------------ sources
ENE_COLS ==
    <<"ENE_01", "ENE_02", "ENE_03", "ENE_04", "ENE_05", "ENE_06",
      "ENE_07", "ENE_08", "ENE_09", "ENE_10", "ENE_11", "ENE_12">>

Feature(key, geom) == [key |-> key, geom |-> geom]
NoRows == [l \in {"UCAT_tab", "UCMT_tab", "UCBT_tab"} |-> <<>>]

\* The geodatabases the run may be handed. Each has the spatial layer's CRS
\* and features, the consumer layers it holds (fiona.listlayers) and their
\* rows under the columns ccols. A column holds one type of value, as the
\* column to_sql declares for it does.
\*  1: keys A, B, C against A, A, B, D; months and capacity stored as text
\*  2: integer spatial keys against text consumer keys, another CRS, one
\*     invalid geometry
\*  3: no CRS declared and no valid geometry
\*  4: no consumer layer
\*  5: all twelve months, all NULL, and no CAR_INST column
Catalog ==
    <<
      [crs |-> "EPSG:4326",
       features |-> << Feature(TextV(<<"A">>), Point(2, 2)),
                       Feature(TextV(<<"B">>), Point(3, 3)),
                       Feature(TextV(<<"C">>), Point(5, 3)) >>,
       layers |-> {"UCMT_tab", "UCBT_tab"},
       ccols |-> <<"PN_CON", "ENE_01", "CAR_INST">>,
       consumer |-> [NoRows EXCEPT
          !["UCMT_tab"] = << <<TextV(<<"A">>), TextV(<<"5">>), TextV(<<"7">>)>>,
                             <<TextV(<<"A">>), Null, Null>> >>,
          !["UCBT_tab"] = << <<TextV(<<"B">>), TextV(<<"1", "x">>), TextV(<<"x">>)>>,
                             <<TextV(<<"D">>), TextV(<<"3">>), TextV(<<"1">>)>> >>]],
      [crs |-> "EPSG:4674",
       features |-> << Feature(IntV(1), Point(10, 10)),
                       Feature(IntV(12), Point(12, 14)),
                       Feature(IntV(7), BadGeom("invalid")) >>,
       layers |-> {"UCBT_tab"},
       ccols |-> <<"PN_CON", "ENE_01", "CAR_INST">>,
       consumer |-> [NoRows EXCEPT
          !["UCBT_tab"] = << <<TextV(<<"1">>), IntV(4), IntV(2)>>,
                             <<TextV(<<"0", "1">>), IntV(2), Null>>,
                             <<TextV(<<"1", "2">>), Null, IntV(6)>>,
                             <<TextV(<<"1", ".", "0">>), IntV(1), IntV(1)>> >>]],
      [crs |-> NoCRS,
       features |-> << Feature(TextV(<<"A">>), BadGeom("none")),
                       Feature(TextV(<<"B">>), BadGeom("empty")) >>,
       layers |-> {"UCBT_tab"},
       ccols |-> <<"PN_CON", "ENE_01", "CAR_INST">>,
       consumer |-> [NoRows EXCEPT
          !["UCBT_tab"] = << <<TextV(<<"A">>), IntV(1), IntV(1)>> >>]],
      [crs |-> "EPSG:4326",
       features |-> << Feature(TextV(<<"A">>), Point(4, 6)) >>,
       layers |-> {},
       ccols |-> <<"PN_CON", "ENE_01", "CAR_INST">>,
       consumer |-> NoRows],
      [crs |-> "EPSG:4326",
       features |-> << Feature(TextV(<<"E">>), Point(6, 8)) >>,
       layers |-> {"UCAT_tab"},
       ccols |-> <<"PN_CON">> \o ENE_COLS,
       consumer |-> [NoRows EXCEPT
          !["UCAT_tab"] = << <<TextV(<<"E">>)>> \o [i \in 1..12 |-> Null] >>]]
    >>

SourceIds == 1..Len(Catalog)

\* The lists of distinct paths of length at most MaxSources
\* (download_and_extract_from_features returns list(set(paths))).
PathLists ==
    UNION { { p \in [1..n -> SourceIds] :
                \A i, j \in 1..n : i # j => p[i] # p[j] } : n \in 0..MaxSources }

\* ------------------------------------------------------------------ state
VARIABLES
    pc,                 \* where run_full_pipeline stands
    spatialite_found,   \* whether some candidate path loads mod_spatialite
    reproject,          \* config.REPROJECT_TO_WGS84: TRUE forces EPSG:4326, FALSE
                        \* adopts the first CRS seen (config.py leaves the
                        \* setting to whoever configures the run)
    gdb_paths,          \* the extracted geodatabases, as indexes of Catalog
    idx,                \* the source the loop of load_and_union_data is at
    engine,             \* self.engine is set
    base_crs,           \* self.base_crs
    data_was_inserted,
    spatial_temp, consumer_temp, processed_data,   \* the relations of the store
    indexes,            \* the key indexes that exist in the store
    result,             \* per source: what the loop logged for it
    postmerge,          \* the index / coordinate step: "not_run", "skipped",
                        \* "committed" or "failed"
    analytics,          \* "not_run", "committed" or "failed"
    absent_access,      \* stages that ran a statement on a missing processed_data
    interactive_map,    \* the map generate_grid_map returned, None for none
    output_written,     \* run_full_pipeline saved the HTML file
    grid_temp,          \* the lattice generate_grid_map_v2_database uploads
    map_v1, map_v2      \* what generate_grid_map_v1 and
                        \* generate_grid_map_v2_database returned

vars ==
    <<pc, spatialite_found, reproject, gdb_paths, idx, engine, base_crs,
      data_was_inserted, spatial_temp, consumer_temp, processed_data, indexes,
      result, postmerge, analytics, absent_access, interactive_map,
      output_written, grid_temp, map_v1, map_v2>>

\* generate_grid_map returning None.
NoMap == [made |-> FALSE, cells |-> {}]

\* The store as one value.
Store ==
    [spatial_temp |-> spatial_temp, consumer_temp |-> consumer_temp,
     processed_data |-> processed_data, indexes |-> indexes]

Init ==
    /\ pc = "start"
    /\ spatialite_found \in BOOLEAN
    /\ reproject \in BOOLEAN
    /\ gdb_paths \in PathLists
    /\ idx = 0
    /\ engine = FALSE
    /\ base_crs = None
    /\ data_was_inserted = FALSE
    /\ spatial_temp = NoTable
    /\ consumer_temp = NoTable
    /\ processed_data = NoTable
    /\ indexes = {}
    /\ result = <<>>
    /\ postmerge = "not_run"
    /\ analytics = "not_run"
    /\ absent_access = {}
    /\ interactive_map = NoMap
    /\ output_written = FALSE
    /\ grid_temp = NoTable
    /\ map_v1 = NoMap
    /\ map_v2 = NoMap

\* ------------------------------------------------------------------ load_and_union_data
\* The base CRS load_and_union_data starts from.
InitialBaseCrs(rp) == IF rp THEN REPROJECT_TARGET ELSE None

\* The assignment without its "is None" guard.
EstablishBaseCrsEverySource(base, rp, crs) == IF ~rp THEN crs ELSE base

\* The base CRS once the spatial layer of a source is open.
EstablishBaseCrs(base, rp, crs) == IF base = None /\ ~rp THEN crs ELSE base

\* spatial_gdf[spatial_gdf['geometry'].apply(is_valid_geometry)]
ValidFeatures(features) ==
    SelectSeq(features, LAMBDA f : is_valid_geometry(f.geom))

\* GeoDataFrame.to_crs(target) of a frame [crs, rows].
to_crs(frame, target) ==
    [crs |-> target,
     rows |-> [i \in 1..Len(frame.rows) |->
        [frame.rows[i] EXCEPT
            !.geom.x = TransformXY(frame.crs, target, @),
            !.geom.y = TransformXY(frame.crs, target, @)]]]

\* The frame passed through under both policies.
ReconcileNoReprojection(frame, rp) == frame

\* Every frame that is not in EPSG:4326 reprojected, whatever the policy.
ReconcileUnderEveryPolicy(frame, rp) ==
    IF ToEpsg(frame.crs) # 4326 /\ ToEpsg(frame.crs) # 0
    THEN to_crs(frame, REPROJECT_TARGET)
    ELSE frame

\* The frame after the CRS policy is applied: reprojected under the forced
\* policy when its CRS is not EPSG:4326, passed through otherwise (under
\* the first-observed policy a mismatch is only warned about).
Reconcile(frame, rp) ==
    IF rp /\ ToEpsg(frame.crs) # 4326
    THEN to_crs(frame, REPROJECT_TARGET)
    ELSE frame

\* The warning of the first-observed policy.
CrsMismatch(frame, rp, base) == ~rp /\ frame.crs # base

\* The spatial frame as to_sql writes it: the geometry as WKB, then the key.
SpatialTable(frame) ==
    [cols |-> <<"geometry", SPATIAL_KEY>>,
     rows |-> [i \in 1..Len(frame.rows) |->
        << BlobV(frame.crs, frame.rows[i].geom.x, frame.rows[i].geom.y),
           frame.rows[i].key >>]]

\* pd.concat of the configured consumer layers the geodatabase holds.
RECURSIVE ConcatLayers(_, _)
ConcatLayers(src, names) ==
    IF names = <<>> THEN <<>>
    ELSE (IF Head(names) \in src.layers THEN src.consumer[Head(names)] ELSE <<>>)
         \o ConcatLayers(src, Tail(names))

ConsumerTable(src) ==
    [cols |-> src.ccols, rows |-> ConcatLayers(src, CONSUMER_LAYERS)]

\* SELECT s.*, c.* FROM spatial_temp AS s INNER JOIN consumer_temp AS c
\* ON s.SPATIAL_KEY = c.CONSUMER_KEY
JoinSelect(sp, co) ==
    LET n == Len(sp.rows)
        m == Len(co.rows)
        pairs == [k \in 1..(n * m) |-> <<((k - 1) \div m) + 1, ((k - 1) % m) + 1>>]
        hit == SelectSeq(pairs, LAMBDA q :
                  SqlEq(Cell(sp, sp.rows[q[1]], SPATIAL_KEY),
                        Cell(co, co.rows[q[2]], CONSUMER_KEY)))
    IN  [cols |-> sp.cols \o co.cols,
         rows |-> [k \in 1..Len(hit) |-> sp.rows[hit[k][1]] \o co.rows[hit[k][2]]]]

\* INSERT INTO processed_data SELECT ... raises when the column counts differ.
JoinRaises(pd, joined) == Exists(pd) /\ Len(pd.cols) # Len(joined.cols)

\* CREATE TABLE processed_data AS SELECT ..., or INSERT INTO processed_data.
JoinInto(pd, joined) ==
    IF ~Exists(pd) THEN joined
    ELSE [pd EXCEPT !.rows = pd.rows \o joined.rows]

\* A rollback that leaves the rows the failed transaction wrote.
RollbackKeepsRows(before, attempted, ddl) ==
    [attempted EXCEPT !.indexes = IF ddl THEN before.indexes ELSE attempted.indexes]

\* trans.rollback(): the rows go back to what they were when the
\* transaction began. The indexes it created go with them when the driver
\* runs DDL inside the transaction (ddl), and stay when it does not.
Rollback(before, attempted, ddl) ==
    [before EXCEPT !.indexes = IF ddl THEN before.indexes ELSE attempted.indexes]

\* to_sql adding the frame to the rows the relation already holds.
to_sql_append(old, new) ==
    IF Exists(old) /\ old.cols = new.cols
    THEN [old EXCEPT !.rows = @ \o new.rows]
    ELSE new

\* DataFrame.to_sql(name, if_exists='replace'): the relation is dropped and
\* written anew from the frame.
to_sql(old, new) == new

Outcome(store, base, committed, outcome, mismatch) ==
    [store |-> store, base |-> base, committed |-> committed,
     outcome |-> outcome, mismatch |-> mismatch]

\* One pass of the loop over gdb_paths, on source srcId, from the store st.
\* fault names the call that raises, "none" for a pass no call raises in.
LoadSource(srcId, st, base, rp, fault, ddl) ==
    LET src == Catalog[srcId]
        base1 == EstablishBaseCrs(base, rp, src.crs)
        valid == [crs |-> src.crs, rows |-> ValidFeatures(src.features)]
        frame == Reconcile(valid, rp)
        warn == CrsMismatch(valid, rp, base1)
        st1 == [st EXCEPT !.spatial_temp = to_sql(@, SpatialTable(frame)),
                          !.indexes = @ \ {"idx_spatial_key"}]
        st2 == [st1 EXCEPT !.consumer_temp = to_sql(@, ConsumerTable(src)),
                           !.indexes = @ \ {"idx_consumer_key"}]
        st3 == [st2 EXCEPT !.indexes = @ \cup {"idx_spatial_key"}]
        st4 == [st3 EXCEPT !.indexes = @ \cup {"idx_consumer_key"}]
        joined == JoinSelect(st4.spatial_temp, st4.consumer_temp)
        st5 == [st4 EXCEPT !.processed_data = JoinInto(@, joined)]
    IN  IF fault = "open"
        THEN Outcome(st, base, FALSE, "failed_gdb", FALSE)
        ELSE IF fault = "read"
        THEN Outcome(st, base1, FALSE, "failed_gdb", FALSE)
        ELSE IF valid.rows = <<>>
        THEN Outcome(st, base1, FALSE, "no_valid_geometries", FALSE)
        ELSE IF rp /\ (src.crs = NoCRS \/ (fault = "reproject" /\ ToEpsg(src.crs) # 4326))
        THEN Outcome(st, base1, FALSE, "failed_gdb", FALSE)
        ELSE IF fault = "wkb"
        THEN Outcome(st, base1, FALSE, "no_valid_after_conversion", warn)
        ELSE IF fault = "stage_spatial"
        THEN Outcome(st, base1, FALSE, "failed_gdb", warn)
        ELSE IF fault = "list_layers"
        THEN Outcome(st1, base1, FALSE, "failed_gdb", warn)
        ELSE IF \A i \in 1..Len(CONSUMER_LAYERS) : CONSUMER_LAYERS[i] \notin src.layers
        THEN Outcome(st1, base1, FALSE, "no_consumer_layers", warn)
        ELSE IF fault = "stage_consumer"
        THEN Outcome(st1, base1, FALSE, "failed_gdb", warn)
        ELSE IF fault = "index"
        THEN Outcome(Rollback(st2, st3, ddl), base1, FALSE, "failed_join", warn)
        ELSE IF JoinRaises(st4.processed_data, joined)
        THEN Outcome(Rollback(st2, st4, ddl), base1, FALSE, "failed_join", warn)
        ELSE IF fault = "join"
        THEN Outcome(Rollback(st2, st5, ddl), base1, FALSE, "failed_join", warn)
        ELSE IF fault = "count"
        THEN Outcome(st5, base1, TRUE, "failed_join", warn)
        ELSE Outcome(st5, base1, TRUE, "joined", warn)

Faults ==
    {"none", "open", "read", "reproject", "wkb", "stage_spatial", "list_layers",
     "stage_consumer", "index", "join", "count"}

\* A loop that a source that did not commit ends.
NextSourceStopsOnFailure(i, n, committed) == IF committed THEN i + 1 ELSE n + 1

\* The source the loop goes to after source i: the except clauses swallow
\* every exception of a pass.
NextSource(i, n, committed) == i + 1

\* run_full_pipeline with no geodatabase: nothing is loaded.
NoGeodatabases ==
    /\ pc = "start"
    /\ gdb_paths = <<>>
    /\ pc' = "done"
    /\ UNCHANGED <<spatialite_found, reproject, gdb_paths, idx, engine, base_crs,
                   data_was_inserted, spatial_temp, consumer_temp, processed_data,
                   indexes, result, postmerge, analytics, absent_access,
                   interactive_map, output_written,
                   grid_temp, map_v1, map_v2>>

\* _initialize_database logging the missing extension and going on.
InitFatalGoesOn ==
    /\ pc = "start"
    /\ gdb_paths # <<>>
    /\ ~spatialite_found
    /\ pc' = "load"
    /\ engine' = TRUE
    /\ idx' = 1
    /\ UNCHANGED <<spatialite_found, reproject, gdb_paths, base_crs,
                   data_was_inserted, spatial_temp, consumer_temp, processed_data,
                   indexes, result, postmerge, analytics, absent_access,
                   interactive_map, output_written, grid_temp, map_v1, map_v2>>

\* _initialize_database finds no SpatiaLite: sys.exit(1).
InitFatal ==
    /\ pc = "start"
    /\ gdb_paths # <<>>
    /\ ~spatialite_found
    /\ pc' = "aborted"
    /\ UNCHANGED <<spatialite_found, reproject, gdb_paths, idx, engine, base_crs,
                   data_was_inserted, spatial_temp, consumer_temp, processed_data,
                   indexes, result, postmerge, analytics, absent_access,
                   interactive_map, output_written,
                   grid_temp, map_v1, map_v2>>

\* load_and_union_data up to its loop: a fresh store, the base CRS of the policy.
BeginLoad ==
    /\ pc = "start"
    /\ gdb_paths # <<>>
    /\ spatialite_found
    /\ pc' = "load"
    /\ engine' = TRUE
    /\ idx' = 1
    /\ data_was_inserted' = FALSE
    /\ base_crs' = InitialBaseCrs(reproject)
    /\ spatial_temp' = NoTable
    /\ consumer_temp' = NoTable
    /\ processed_data' = NoTable
    /\ indexes' = {}
    /\ UNCHANGED <<spatialite_found, reproject, gdb_paths, result, postmerge,
                   analytics, absent_access, interactive_map, output_written,
                   grid_temp, map_v1, map_v2>>

\* One pass of the loop.
ProcessSource ==
    /\ pc = "load"
    /\ idx <= Len(gdb_paths)
    /\ \E fault \in Faults, ddl \in BOOLEAN :
         \E o \in {LoadSource(gdb_paths[idx], Store, base_crs, reproject, fault, ddl)} :
             /\ spatial_temp' = o.store.spatial_temp
             /\ consumer_temp' = o.store.consumer_temp
             /\ processed_data' = o.store.processed_data
             /\ indexes' = o.store.indexes
             /\ base_crs' = o.base
             /\ data_was_inserted' = (data_was_inserted \/ o.committed)
             /\ result' = Append(result,
                    [src |-> gdb_paths[idx], outcome |-> o.outcome,
                     committed |-> o.committed, mismatch |-> o.mismatch])
             /\ idx' = NextSource(idx, Len(gdb_paths), o.committed)
    /\ UNCHANGED <<pc, spatialite_found, reproject, gdb_paths, engine, postmerge,
                   analytics, absent_access, interactive_map, output_written,
                   grid_temp, map_v1, map_v2>>

\* GeomFromWKB(geometry, srid): the coordinates as stored, tagged with
\* the SRID of base; s = <<the frame they are really in, the tag>>.
GeomFromWKB(blob, base) ==
    IF blob.t = "blob"
    THEN [t |-> "geom", n |-> blob.n, d |-> blob.d, s |-> <<blob.s[1], base>>]
    ELSE Null

\* ST_X / ST_Y of coord_geom: Transform(geom, 4326) goes from the frame
\* the geometry is tagged with, and is skipped when that is EPSG:4326.
CoordX(g) ==
    IF g.t # "geom" THEN Null
    ELSE IF ToEpsg(g.s[2]) # 4326
    THEN RealV(TransformXY(g.s[2], "EPSG:4326", g.n), 1)
    ELSE RealV(g.n, 1)

CoordY(g) ==
    IF g.t # "geom" THEN Null
    ELSE IF ToEpsg(g.s[2]) # 4326
    THEN RealV(TransformXY(g.s[2], "EPSG:4326", g.d), 1)
    ELSE RealV(g.d, 1)

\* The statements of the index / coordinate transaction on processed_data.
WithCoordinateColumns(pd, base) ==
    LET t1 == AddColumn(pd, "geom", Null)
        t2 == UpdateCol(t1, "geom",
                 [i \in 1..Len(t1.rows) |->
                     GeomFromWKB(Cell(t1, t1.rows[i], "geometry"), base)])
        t3 == AddColumn(AddColumn(t2, "longitude", Null), "latitude", Null)
        t4 == UpdateCol(t3, "longitude",
                 [i \in 1..Len(t3.rows) |-> CoordX(Cell(t3, t3.rows[i], "geom"))])
    IN  UpdateCol(t4, "latitude",
                 [i \in 1..Len(t4.rows) |-> CoordY(Cell(t4, t4.rows[i], "geom"))])

\* A rollback that leaves the columns with the values the UPDATEs wrote.
WithCoordinateColumnsKept(pd) == WithCoordinateColumns(pd, REPROJECT_TARGET)

\* The columns the transaction adds, left NULL: what a rollback leaves when
\* the driver does not run DDL inside the transaction.
WithEmptyCoordinateColumns(pd) ==
    AddColumn(AddColumn(AddColumn(pd, "geom", Null), "longitude", Null),
              "latitude", Null)

\* The end of load_and_union_data, after the loop.
FinishLoad ==
    /\ pc = "load"
    /\ idx > Len(gdb_paths)
    /\ pc' = "analytics"
    /\ IF ~data_was_inserted
       THEN /\ postmerge' = "skipped"
            /\ UNCHANGED <<processed_data, indexes>>
       ELSE \E fault \in {"none", "spatial"}, ddl \in BOOLEAN :
              IF ToEpsg(base_crs) = 0
              THEN /\ postmerge' = "failed"
                   /\ UNCHANGED <<processed_data, indexes>>
              ELSE IF fault = "spatial"
              THEN /\ postmerge' = "failed"
                   /\ processed_data' =
                        IF ddl THEN processed_data
                        ELSE WithEmptyCoordinateColumns(processed_data)
                   /\ UNCHANGED indexes
              ELSE /\ postmerge' = "committed"
                   /\ processed_data' = WithCoordinateColumns(processed_data, base_crs)
                   /\ indexes' = indexes \cup {"idx_processed_data_geom"}
    /\ UNCHANGED <<spatialite_found, reproject, gdb_paths, idx, engine, base_crs,
                   data_was_inserted, spatial_temp, consumer_temp, result,
                   analytics, absent_access, interactive_map, output_written,
                   grid_temp, map_v1, map_v2>>

\* ------------------------------------------------------------------ process_analytics
\* ALTER TABLE ... ADD COLUMN for each name in turn, up to the first name
\* the relation already has (a duplicate column raises).
RECURSIVE AddColumns(_, _, _)
AddColumns(tab, names, dflt) ==
    IF names = <<>> THEN [tab |-> tab, ok |-> TRUE]
    ELSE IF HasCol(tab, Head(names)) THEN [tab |-> tab, ok |-> FALSE]
    ELSE AddColumns(AddColumn(tab, Head(names), dflt), Tail(names), dflt)

\* The monthly columns the relation lacks.
MissingEneCols(tab) == SelectSeq(ENE_COLS, LAMBDA c : ~HasCol(tab, c))

\* COALESCE(CAST(col AS REAL), 0)
NumOrZero(v) == Coalesce(CastReal(v), RealV(0, 1))

\* COALESCE(CAST(ENE_01 AS REAL), 0) + ... + COALESCE(CAST(ENE_12 AS REAL), 0)
RECURSIVE SumExpression(_, _, _)
SumExpression(tab, row, names) ==
    IF names = <<>> THEN RealV(0, 1)
    ELSE RealAdd(SumExpression(tab, row, SubSeq(names, 1, Len(names) - 1)),
                 NumOrZero(Cell(tab, row, names[Len(names)])))

\* ENE_TOT / 12.0
MeanExpression(tot, tab, row) == RealDiv(tot, 12)

\* The three UPDATEs on a relation that has every column they read.
Enrich(tab) ==
    LET t1 == UpdateCol(tab, "ENE_TOT",
                 [i \in 1..Len(tab.rows) |-> SumExpression(tab, tab.rows[i], ENE_COLS)])
        t2 == UpdateCol(t1, "ENE_MED",
                 [i \in 1..Len(t1.rows) |->
                     MeanExpression(Cell(t1, t1.rows[i], "ENE_TOT"), t1, t1.rows[i])])
    IN  UpdateCol(t2, "DEM",
                 [i \in 1..Len(t2.rows) |-> NumOrZero(Cell(t2, t2.rows[i], "CAR_INST"))])

ProcessAnalytics ==
    /\ pc = "analytics"
    /\ pc' = "grid"
    /\ IF ~engine
       THEN UNCHANGED <<processed_data, analytics, absent_access>>
       ELSE IF ~Exists(processed_data)
       THEN /\ analytics' = "failed"
            /\ absent_access' = absent_access \cup {"process_analytics"}
            /\ UNCHANGED processed_data
       ELSE \E ddl \in BOOLEAN :
              LET a1 == AddColumns(processed_data, <<"ENE_TOT", "ENE_MED", "DEM">>, Null)
                  a2 == AddColumns(a1.tab, MissingEneCols(a1.tab), RealV(0, 1))
              IN  /\ UNCHANGED absent_access
                  /\ IF ~a1.ok
                     THEN /\ analytics' = "failed"
                          /\ processed_data' = IF ddl THEN processed_data ELSE a1.tab
                     ELSE IF ~HasCol(a2.tab, "CAR_INST")
                     THEN /\ analytics' = "failed"
                          /\ processed_data' = IF ddl THEN processed_data ELSE a2.tab
                     ELSE /\ analytics' = "committed"
                          /\ processed_data' = Enrich(a2.tab)
    /\ UNCHANGED <<spatialite_found, reproject, gdb_paths, idx, engine, base_crs,
                   data_was_inserted, spatial_temp, consumer_temp, indexes, result,
                   postmerge, interactive_map, output_written,
                   grid_temp, map_v1, map_v2>>

\* ------------------------------------------------------------------ generate_grid_map
RealLess(a, b) == a.n * b.d < b.n * a.d

\* The non-NULL values of column c.
ColumnValues(tab, c) ==
    {Cell(tab, tab.rows[i], c) : i \in {j \in 1..Len(tab.rows) :
                                          Cell(tab, tab.rows[j], c).t # "null"}}

\* MIN(c) and MAX(c): NULL over no value.
MinOf(tab, c) ==
    LET vs == ColumnValues(tab, c)
    IN  IF vs = {} THEN Null ELSE CHOOSE v \in vs : \A w \in vs : ~RealLess(w, v)

MaxOf(tab, c) ==
    LET vs == ColumnValues(tab, c)
    IN  IF vs = {} THEN Null ELSE CHOOSE v \in vs : \A w \in vs : ~RealLess(v, w)

\* Python's truth of a bound: None and 0.0 are false.
Truthy(v) == v.t # "null" /\ v.n # 0

\* The index rounded up instead of down.
GridIndexCeiling(coord, lo) ==
    -((lo.n * coord.d - coord.n * lo.d) \div (coord.d * lo.d * GRID_CELL_SIZE_DEG))

\* CAST(FLOOR((coord - lo) / grid_cell_size_deg) AS INTEGER)
GridIndex(coord, lo) ==
    (coord.n * lo.d - lo.n * coord.d) \div (coord.d * lo.d * GRID_CELL_SIZE_DEG)

\* The coordinate is a whole number k >= 1 of cells away from lo. The
\* quotient (coord - lo) / grid_cell_size_deg is then computed in IEEE
\* doubles as k or as the double just below k (1 / 111.32 is no double), so
\* that FLOOR yields k or k - 1 depending on the operands.
OnLatticeLine(coord, lo) ==
    /\ GridIndex(coord, lo) >= 1
    /\ (coord.n * lo.d - lo.n * coord.d) % (coord.d * lo.d * GRID_CELL_SIZE_DEG) = 0

\* The rows the aggregation query keeps.
Located(tab) ==
    {i \in 1..Len(tab.rows) :
        /\ Cell(tab, tab.rows[i], "longitude").t # "null"
        /\ Cell(tab, tab.rows[i], "latitude").t # "null"}

RECURSIVE SumOver(_, _, _)
SumOver(tab, c, is) ==
    IF is = {} THEN RealV(0, 1)
    ELSE LET i == CHOOSE j \in is : TRUE
         IN  RealAdd(NumOrZero(Cell(tab, tab.rows[i], c)), SumOver(tab, c, is \ {i}))

\* SUM / AVG / COUNT of "AGGREGATION_COLUMN" over the rows is. A double-quoted
\* name that is no column of the relation is read as a string literal.
Aggregate(tab, is) ==
    LET c == AGGREGATION_COLUMN
        has == HasCol(tab, c)
        nn == IF has THEN {i \in is : Cell(tab, tab.rows[i], c).t # "null"} ELSE is
    IN  CASE AGGREGATION_FUNCTION = "count" -> IntV(Cardinality(nn))
          [] nn = {} -> Null
          [] ~has -> RealV(0, 1)
          [] AGGREGATION_FUNCTION = "mean" ->
                RealDiv(SumOver(tab, c, nn), Cardinality(nn))
          [] OTHER -> SumOver(tab, c, nn)

\* The located rows whose quotient may round below the whole number.
RowsOnLineX(tab, xmin) ==
    {i \in Located(tab) : OnLatticeLine(Cell(tab, tab.rows[i], "longitude"), xmin)}

RowsOnLineY(tab, ymin) ==
    {i \in Located(tab) : OnLatticeLine(Cell(tab, tab.rows[i], "latitude"), ymin)}

\* The grouped result, one record per (grid_x_index, grid_y_index), with the
\* corner of the polygon rebuilt for it. downX and downY are the rows whose
\* quotient rounded below the whole number.
GridCells(tab, xmin, ymin, downX, downY) ==
    LET ixOf(i) == GridIndex(Cell(tab, tab.rows[i], "longitude"), xmin)
                      - (IF i \in downX THEN 1 ELSE 0)
        iyOf(i) == GridIndex(Cell(tab, tab.rows[i], "latitude"), ymin)
                      - (IF i \in downY THEN 1 ELSE 0)
        keys == {<<ixOf(i), iyOf(i)>> : i \in Located(tab)}
    IN  { LET grp == {i \in Located(tab) : <<ixOf(i), iyOf(i)>> = k}
          IN  [ix |-> k[1], iy |-> k[2],
               value |-> Aggregate(tab, grp),
               point_count |-> Cardinality(grp),
               cell_xmin |-> RealAdd(xmin, RealV(k[1] * GRID_CELL_SIZE_DEG, 1)),
               cell_ymin |-> RealAdd(ymin, RealV(k[2] * GRID_CELL_SIZE_DEG, 1))]
          : k \in keys }

GenerateGridMap ==
    /\ pc = "grid"
    /\ pc' = "save"
    /\ IF ~engine
       THEN UNCHANGED <<interactive_map, absent_access>>
       ELSE IF ~Exists(processed_data)
       THEN /\ interactive_map' = NoMap
            /\ absent_access' = absent_access \cup {"generate_grid_map"}
       ELSE IF ~HasCol(processed_data, "longitude")
       THEN /\ interactive_map' = NoMap
            /\ UNCHANGED absent_access
       ELSE LET xmin == MinOf(processed_data, "longitude")
                ymin == MinOf(processed_data, "latitude")
                xmax == MaxOf(processed_data, "longitude")
                ymax == MaxOf(processed_data, "latitude")
            IN  /\ UNCHANGED absent_access
                /\ IF ~(Truthy(xmin) /\ Truthy(ymin) /\ Truthy(xmax) /\ Truthy(ymax))
                   THEN interactive_map' = NoMap
                   ELSE \E downX \in SUBSET RowsOnLineX(processed_data, xmin),
                           downY \in SUBSET RowsOnLineY(processed_data, ymin) :
                          LET cells == GridCells(processed_data, xmin, ymin,
                                                 downX, downY)
                          IN  interactive_map' =
                                 IF cells = {} THEN NoMap
                                 ELSE [made |-> TRUE, cells |-> cells]
    /\ UNCHANGED <<spatialite_found, reproject, gdb_paths, idx, engine, base_crs,
                   data_was_inserted, spatial_temp, consumer_temp, processed_data,
                   indexes, result, postmerge, analytics, output_written,
                   grid_temp, map_v1, map_v2>>

\* ------------------------------------------------------------------ generate_grid_map_v1
\* What a strategy hands back: the map it returned (NoMap for None), or an
\* exception it let through.
Returned(m) == [map |-> m, raised |-> FALSE]
Raised == [map |-> NoMap, raised |-> TRUE]

\* MbrMinX / MbrMinY of bounds_query_geom, one value per row: Transform(geom,
\* 4326) when the base CRS is not EPSG:4326, geom otherwise.
BoundsGeomX(tab, base) ==
    [cols |-> <<"x">>,
     rows |-> [i \in 1..Len(tab.rows) |->
        LET g == Cell(tab, tab.rows[i], "geom")
        IN  << IF g.t # "geom" THEN Null
               ELSE IF ToEpsg(base) # 4326
               THEN RealV(TransformXY(g.s[2], "EPSG:4326", g.n), 1)
               ELSE RealV(g.n, 1) >>]]

BoundsGeomY(tab, base) ==
    [cols |-> <<"y">>,
     rows |-> [i \in 1..Len(tab.rows) |->
        LET g == Cell(tab, tab.rows[i], "geom")
        IN  << IF g.t # "geom" THEN Null
               ELSE IF ToEpsg(base) # 4326
               THEN RealV(TransformXY(g.s[2], "EPSG:4326", g.d), 1)
               ELSE RealV(g.d, 1) >>]]

\* A range that stops one cell short when the last cell is a partial one.
ArangeLenWholeCells(lo, hi) ==
    LET num == hi.n * lo.d - lo.n * hi.d
        den == hi.d * lo.d * GRID_CELL_SIZE_DEG
    IN  IF num <= 0 THEN 0 ELSE num \div den

\* len(np.arange(lo, hi, grid_cell_size_deg)): the k >= 0 with
\* lo + k * grid_cell_size_deg < hi.
ArangeLen(lo, hi) ==
    LET num == hi.n * lo.d - lo.n * hi.d
        den == hi.d * lo.d * GRID_CELL_SIZE_DEG
    IN  IF num <= 0 THEN 0 ELSE ((num - 1) \div den) + 1

\* The lattice positions (kx, ky) of grid_cells; cell (kx, ky) has its corner
\* at (xmin + kx * grid_cell_size_deg, ymin + ky * grid_cell_size_deg).
Lattice(xmin, ymin, xmax, ymax) ==
    {<<kx, ky>> : kx \in 0..(ArangeLen(xmin, xmax) - 1),
                  ky \in 0..(ArangeLen(ymin, ymax) - 1)}

\* A coordinate of a cell's corner as the contains test sees it:
\* Transform(GeomFromText(wkt, 4326), srid) when the base CRS is not
\* EPSG:4326, the coordinate as it is otherwise.
CellCoord(base, lo, k) ==
    LET c == RealAdd(lo, RealV(k * GRID_CELL_SIZE_DEG, 1))
    IN  IF ToEpsg(base) # 4326
        THEN RealAdd(c, RealV(TransformXY("EPSG:4326", base, 0), 1))
        ELSE c

\* ST_Contains(cell, geom): the point is in the interior of the square (a
\* point on its boundary is not contained; a NULL geometry matches nothing).
ST_Contains(base, xmin, ymin, k, g) ==
    /\ g.t = "geom"
    /\ LET x0 == CellCoord(base, xmin, k[1])
           y0 == CellCoord(base, ymin, k[2])
           x1 == RealAdd(x0, RealV(GRID_CELL_SIZE_DEG, 1))
           y1 == RealAdd(y0, RealV(GRID_CELL_SIZE_DEG, 1))
       IN  /\ RealLess(x0, RealV(g.n, 1)) /\ RealLess(RealV(g.n, 1), x1)
           /\ RealLess(y0, RealV(g.d, 1)) /\ RealLess(RealV(g.d, 1), y1)

\* The rows of processed_data the cell at lattice position k contains.
ContainedRows(tab, base, xmin, ymin, k) ==
    {i \in 1..Len(tab.rows) :
        ST_Contains(base, xmin, ymin, k, Cell(tab, tab.rows[i], "geom"))}

\* One cell of a lattice strategy's result.
LatticeCell(tab, xmin, ymin, k, grp, value) ==
    [ix |-> k[1], iy |-> k[2],
     value |-> value,
     point_count |-> Cardinality(grp),
     cell_xmin |-> RealAdd(xmin, RealV(k[1] * GRID_CELL_SIZE_DEG, 1)),
     cell_ymin |-> RealAdd(ymin, RealV(k[2] * GRID_CELL_SIZE_DEG, 1))]

\* agg_val if agg_val is not None else 0
V1Value(v) == IF v.t = "null" THEN IntV(0) ELSE v

\* grid_gdf with the cells the loop did not fill left in.
V1KeepAllCells(cells) == cells

\* grid_gdf[grid_gdf['point_count'] > 0]
V1WithData(cells) == {c \in cells : c.point_count > 0}

\* generate_grid_map_v1 on the relation tab (NoTable when it is missing).
GridMapV1(eng, tab, base) ==
    IF ~eng THEN Returned(NoMap)
    ELSE IF ToEpsg(base) = 0 THEN Raised
    ELSE IF ~Exists(tab) \/ ~HasCol(tab, "geom") THEN Returned(NoMap)
    ELSE LET xmin == MinOf(BoundsGeomX(tab, base), "x")
             ymin == MinOf(BoundsGeomY(tab, base), "y")
             xmax == MaxOf(BoundsGeomX(tab, base), "x")
             ymax == MaxOf(BoundsGeomY(tab, base), "y")
         IN  IF ~(Truthy(xmin) /\ Truthy(ymin) /\ Truthy(xmax) /\ Truthy(ymax))
             THEN Returned(NoMap)
             ELSE LET lattice == Lattice(xmin, ymin, xmax, ymax)
                      grid_gdf ==
                        { LET grp == ContainedRows(tab, base, xmin, ymin, k)
                          IN  LatticeCell(tab, xmin, ymin, k, grp,
                                 IF grp = {} THEN IntV(0)
                                 ELSE V1Value(Aggregate(tab, grp)))
                          : k \in lattice }
                      grid_with_data == V1WithData(grid_gdf)
                  IN  IF lattice # {} /\ ~HasCol(tab, AGGREGATION_COLUMN)
                      THEN Raised
                      ELSE IF grid_with_data = {} THEN Returned(NoMap)
                      ELSE Returned([made |-> TRUE, cells |-> grid_with_data])

GenerateGridMapV1 ==
    /\ pc = "grid_v1"
    /\ LET r == GridMapV1(engine, processed_data, base_crs)
       IN  /\ map_v1' = r.map
           /\ pc' = IF r.raised THEN "aborted" ELSE "grid_v2"
    /\ UNCHANGED <<spatialite_found, reproject, gdb_paths, idx, engine, base_crs,
                   data_was_inserted, spatial_temp, consumer_temp, processed_data,
                   indexes, result, postmerge, analytics, absent_access,
                   interactive_map, output_written, grid_temp, map_v2>>

\* ------------------------------------------------------------------ generate_grid_map_v2_database
\* A cell of the lattice as the blob to_sql uploads: n and d hold its lattice
\* position, from which its corner follows as for LatticeCell.
PolygonV(k) == [t |-> "polygon", n |-> k[1], d |-> k[2], s |-> <<"EPSG:4326">>]

\* grid_gdf.drop(columns='geometry').to_sql('grid_temp', if_exists='replace'),
\* grid_id numbering the cells in the order the comprehension builds them.
GridTempTable(xmin, ymin, xmax, ymax) ==
    LET ny == ArangeLen(ymin, ymax)
        n == ArangeLen(xmin, xmax) * ny
    IN  [cols |-> <<"grid_id", "geometry_wkb">>,
         rows |-> [i \in 1..n |->
            << IntV(i - 1), PolygonV(<<(i - 1) \div ny, (i - 1) % ny>>) >>]]

\* The transaction on grid_temp: the geometry column, filled from the blob.
WithGridGeometry(gt) ==
    LET t1 == AddColumn(gt, "geom", Null)
    IN  UpdateCol(t1, "geom",
           [i \in 1..Len(t1.rows) |-> Cell(t1, t1.rows[i], "geometry_wkb")])

\* grid_temp AS g JOIN processed_data AS p ON ST_Contains(join_geom, p.geom)
\* GROUP BY g.grid_id: one record per grid_id that some row joins.
V2Aggregation(gt, tab, base, xmin, ymin) ==
    LET grpOf(j) ==
          LET g == Cell(gt, gt.rows[j], "geom")
          IN  ContainedRows(tab, base, xmin, ymin, <<g.n, g.d>>)
        joined == {j \in 1..Len(gt.rows) : grpOf(j) # {}}
    IN  { [grid_id |-> Cell(gt, gt.rows[j], "grid_id").n,
           agg_value |-> Aggregate(tab, grpOf(j)),
           point_count |-> Cardinality(grpOf(j))] : j \in joined }

\* grid_gdf.merge(agg_results_df, on='grid_id') and the rename of agg_value.
V2Merge(gt, agg, xmin, ymin) ==
    { LET j == CHOOSE i \in 1..Len(gt.rows) :
                  Cell(gt, gt.rows[i], "grid_id").n = a.grid_id
          g == Cell(gt, gt.rows[j], "geometry_wkb")
      IN  [ix |-> g.n, iy |-> g.d,
           value |-> a.agg_value,
           point_count |-> a.point_count,
           cell_xmin |-> RealAdd(xmin, RealV(g.n * GRID_CELL_SIZE_DEG, 1)),
           cell_ymin |-> RealAdd(ymin, RealV(g.d * GRID_CELL_SIZE_DEG, 1))]
      : a \in agg }

\* generate_grid_map_v2_database on the relation tab, from the lattice
\* relation gt0. fault names the call that raises inside the transaction on
\* grid_temp, "none" for none; ddl as for Rollback.
GridMapV2(eng, tab, base, gt0, fault, ddl) ==
    IF ~eng THEN Returned(NoMap) @@ [grid_temp |-> gt0]
    ELSE IF ToEpsg(base) = 0 THEN Raised @@ [grid_temp |-> gt0]
    ELSE IF ~Exists(tab) \/ ~HasCol(tab, "geom")
    THEN Returned(NoMap) @@ [grid_temp |-> gt0]
    ELSE LET xmin == MinOf(BoundsGeomX(tab, base), "x")
             ymin == MinOf(BoundsGeomY(tab, base), "y")
             xmax == MaxOf(BoundsGeomX(tab, base), "x")
             ymax == MaxOf(BoundsGeomY(tab, base), "y")
         IN  IF ~(Truthy(xmin) /\ Truthy(ymin) /\ Truthy(xmax) /\ Truthy(ymax))
             THEN Returned(NoMap) @@ [grid_temp |-> gt0]
             ELSE LET gt1 == GridTempTable(xmin, ymin, xmax, ymax)
                      gt2 == WithGridGeometry(gt1)
                      agg == V2Aggregation(gt2, tab, base, xmin, ymin)
                      cells == V2Merge(gt2, agg, xmin, ymin)
                  IN  IF fault = "spatial"
                      THEN Returned(NoMap) @@
                           [grid_temp |-> IF ddl THEN gt1
                                          ELSE AddColumn(gt1, "geom", Null)]
                      ELSE IF ~HasCol(tab, AGGREGATION_COLUMN)
                      THEN Raised @@ [grid_temp |-> gt2]
                      ELSE IF agg = {}
                      THEN Returned(NoMap) @@ [grid_temp |-> gt2]
                      ELSE Returned([made |-> TRUE, cells |-> cells]) @@
                           [grid_temp |-> gt2]

GenerateGridMapV2 ==
    /\ pc = "grid_v2"
    /\ \E fault \in {"none", "spatial"}, ddl \in BOOLEAN :
         LET r == GridMapV2(engine, processed_data, base_crs, grid_temp, fault, ddl)
         IN  /\ map_v2' = r.map
             /\ grid_temp' = r.grid_temp
             /\ pc' = IF r.raised THEN "aborted" ELSE "grid"
    /\ UNCHANGED <<spatialite_found, reproject, gdb_paths, idx, engine, base_crs,
                   data_was_inserted, spatial_temp, consumer_temp, processed_data,
                   indexes, result, postmerge, analytics, absent_access,
                   interactive_map, output_written, map_v1>>

\* run_full_pipeline saves the map when there is one.
SaveMap ==
    /\ pc = "save"
    /\ pc' = "done"
    /\ output_written' = interactive_map.made
    /\ UNCHANGED <<spatialite_found, reproject, gdb_paths, idx, engine, base_crs,
                   data_was_inserted, spatial_temp, consumer_temp, processed_data,
                   indexes, result, postmerge, analytics, absent_access,
                   interactive_map,
                   grid_temp, map_v1, map_v2>>

Next ==
    \/ NoGeodatabases
    \/ InitFatal
    \/ BeginLoad
    \/ ProcessSource
    \/ FinishLoad
    \/ ProcessAnalytics
    \/ GenerateGridMap
    \/ SaveMap

Spec == Init /\ [][Next]_vars

\* ------------------------------------------------------------------ the three strategies on one relation
\* Coordinates, in EPSG:4326, of the points a relation is drawn from.
Coords == {-2, 0, 1, 3}
Places == Coords \X Coords

\* The four points (0, 0), (0.5, 0.5), (1.5, 0.5), (1.5, 1.5) of the grid
\* scenario, in half cells of a one degree grid.
ScenarioPlaces == {<<0, 0>>, <<1, 1>>, <<3, 1>>, <<3, 3>>}

\* The places of a set in the order of the layer's features.
RECURSIVE PlaceSeq(_)
PlaceSeq(ps) ==
    IF ps = {} THEN <<>>
    ELSE LET p == CHOOSE q \in ps :
                     \A r \in ps : q[1] < r[1] \/ (q[1] = r[1] /\ q[2] <= r[2])
         IN  <<p>> \o PlaceSeq(ps \ {p})

\* A geodatabase whose spatial layer, in CRS crs, holds one point per place
\* and whose consumer layer holds one record per point.
PlacesSource(ps, crs) ==
    LET seq == PlaceSeq(ps)
    IN  [crs |-> crs,
         features |-> [i \in 1..Len(seq) |->
            Feature(IntV(i), Point(TransformXY("EPSG:4326", crs, seq[i][1]),
                                   TransformXY("EPSG:4326", crs, seq[i][2])))],
         layers |-> {"UCBT_tab"},
         ccols |-> <<"PN_CON", "ENE_01", "CAR_INST">>,
         consumer |-> [NoRows EXCEPT
            !["UCBT_tab"] = [i \in 1..Len(seq) |-> <<IntV(i), IntV(i), IntV(1)>>]]]

\* processed_data after load_and_union_data and process_analytics went
\* through the one source src with nothing raising.
EnrichedRelation(src, rp) ==
    LET base == EstablishBaseCrs(InitialBaseCrs(rp), rp, src.crs)
        frame == Reconcile([crs |-> src.crs, rows |-> ValidFeatures(src.features)], rp)
        joined == JoinSelect(SpatialTable(frame), ConsumerTable(src))
        pd == WithCoordinateColumns(JoinInto(NoTable, joined), base)
        a1 == AddColumns(pd, <<"ENE_TOT", "ENE_MED", "DEM">>, Null)
        a2 == AddColumns(a1.tab, MissingEneCols(a1.tab), RealV(0, 1))
    IN  Enrich(a2.tab)

\* The state in which the three strategies are run one after the other on
\* the relation a run left in the store.
GridInit ==
    \E ps \in SUBSET Places, crs \in {"EPSG:4326", "EPSG:4674"} :
       /\ Cardinality(ps) <= MaxPoints \/ ps = ScenarioPlaces
       /\ LET src == PlacesSource(ps, crs)
              frame == Reconcile([crs |-> crs, rows |-> ValidFeatures(src.features)], FALSE)
          IN  /\ spatial_temp = SpatialTable(frame)
              /\ consumer_temp = ConsumerTable(src)
              /\ processed_data = EnrichedRelation(src, FALSE)
              /\ base_crs = EstablishBaseCrs(InitialBaseCrs(FALSE), FALSE, crs)
       /\ pc = "grid_v1"
       /\ spatialite_found = TRUE
       /\ reproject = FALSE
       /\ gdb_paths = <<>>
       /\ idx = 0
       /\ engine = TRUE
       /\ data_was_inserted = TRUE
       /\ indexes = {"idx_spatial_key", "idx_consumer_key", "idx_processed_data_geom"}
       /\ result = <<>>
       /\ postmerge = "committed"
       /\ analytics = "committed"
       /\ absent_access = {}
       /\ interactive_map = NoMap
       /\ output_written = FALSE
       /\ grid_temp = NoTable
       /\ map_v1 = NoMap
       /\ map_v2 = NoMap

GridNext ==
    \/ GenerateGridMapV1
    \/ GenerateGridMapV2
    \/ GenerateGridMap
    \/ SaveMap

GridSpec == GridInit /\ [][GridNext]_vars

\* ------------------------------------------------------------------ properties
\* The last source the loop went through, in a step that went through one.
SourceDone == Len(result') = Len(result) + 1
Last == result'[Len(result')]

\* b holds the rows of a, in place and unaltered, and possibly more.
Extends(a, b) ==
    \/ ~Exists(a)
    \/ /\ b.cols = a.cols
       /\ Len(b.rows) >= Len(a.rows)
       /\ SubSeq(b.rows, 1, Len(a.rows)) = a.rows

\* C1: in load_and_union_data processed_data only grows: a source that
\* commits leaves every earlier row in place and unaltered, and a source
\* whose load or join fails leaves processed_data exactly as it was.
C1_ProcessedDataOnlyGrows ==
    [][SourceDone =>
          IF Last.committed
          THEN Extends(processed_data, processed_data')
          ELSE processed_data' = processed_data]_vars

\* A join that failed and was rolled back after an earlier source committed rows.
C1_Witness ==
    /\ Len(result) = 2
    /\ result[1].committed
    /\ result[2].outcome = "failed_join"
    /\ ~result[2].committed
    /\ processed_data.rows # <<>>

\* C2: a source that fails leaves the store (staging relations, indexes,
\* processed_data) as it was before that source started.
C2_FailedSourceLeavesStoreAsBefore ==
    [][(SourceDone /\ ~Last.committed) => Store' = Store]_vars

\* C3: every source is attempted once, in the order of the list, whatever
\* became of the sources before it, and the loop ends only after the last
\* source of the list.
C3_EverySourceAttemptedInOrder ==
    /\ pc = "load" =>
          /\ Len(result) = idx - 1
          /\ idx <= Len(gdb_paths) + 1
    /\ \A i \in 1..Len(result) : result[i].src = gdb_paths[i]
    /\ (pc \in {"analytics", "grid", "save", "done"} /\ gdb_paths # <<>>)
          => Len(result) = Len(gdb_paths)

\* The loop is past a source that failed and has joined the one after it.
C3_Witness ==
    /\ pc = "analytics"
    /\ Len(result) = 2
    /\ result[1].outcome \in {"failed_gdb", "failed_join", "no_consumer_layers"}
    /\ result[2].outcome = "joined"

\* C4: when no source committed a join, process_analytics and
\* generate_grid_map run no statement against the missing processed_data
\* and no output file is written.
C4_NoDataStagesRunNoStatement ==
    (pc = "done" /\ engine /\ ~data_was_inserted)
        => (absent_access = {} /\ ~output_written)

\* The frame the geometry of a row of processed_data is really in.
FrameOf(row) == Cell(processed_data, row, "geometry").s[1]

\* C5: every row of processed_data carries its geometry in the base CRS,
\* under either policy.
C5_EveryRowInBaseCrs ==
    \A i \in 1..Len(processed_data.rows) : FrameOf(processed_data.rows[i]) = base_crs

\* C5 as amended: under the forced policy every row is in the base CRS;
\* under the first-observed policy every row is in the CRS of a source that
\* committed, as that source had it.
C5_RowsInBaseCrsUnderForcedPolicy ==
    \A i \in 1..Len(processed_data.rows) :
        LET f == FrameOf(processed_data.rows[i])
        IN  IF reproject
            THEN f = base_crs
            ELSE \E j \in 1..Len(result) :
                    result[j].committed /\ Catalog[result[j].src].crs = f

\* Under the forced policy, rows of a source that is not in EPSG:4326.
C5_Witness ==
    /\ reproject
    /\ Len(result) = 1
    /\ result[1].committed
    /\ Catalog[result[1].src].crs = "EPSG:4674"
    /\ processed_data.rows # <<>>

\* C6: within a run the base CRS is assigned once: when base_crs holds a
\* value, no step changes it.
C6_BaseCrsSingleAssignment ==
    [][base_crs # None => base_crs' = base_crs]_vars

\* Under the first-observed policy, a source in another CRS was joined
\* after the base CRS was established.
C6_Witness ==
    /\ ~reproject
    /\ Len(result) = 2
    /\ result[2].outcome = "joined"
    /\ result[2].mismatch
    /\ base_crs = Catalog[result[1].src].crs
    /\ base_crs # Catalog[result[2].src].crs

\* C7: under the first-observed policy the base CRS is the CRS of the
\* first source that was loaded and joined; no source that failed or was
\* skipped determines it.
C7_BaseCrsFromFirstLoadedSource ==
    (~reproject /\ base_crs # None) =>
        \E i \in 1..Len(result) :
            /\ result[i].committed
            /\ Catalog[result[i].src].crs = base_crs
            /\ \A j \in 1..(i - 1) : ~result[j].committed

\* The decimal digits of a natural number.
RECURSIVE DecimalDigits(_)
DecimalDigits(k) ==
    IF k < 10 THEN <<Digits[k + 1]>>
    ELSE Append(DecimalDigits(k \div 10), Digits[(k % 10) + 1])

\* A join key normalized to a string.
KeyString(v) == IF v.t = "int" THEN DecimalDigits(v.n) ELSE v.s

\* The rows of the pairs (s, c) whose keys are equal as strings.
StringKeyJoin(sp, co) ==
    LET n == Len(sp.rows)
        m == Len(co.rows)
        pairs == [k \in 1..(n * m) |-> <<((k - 1) \div m) + 1, ((k - 1) % m) + 1>>]
        hit == SelectSeq(pairs, LAMBDA q :
                  KeyString(Cell(sp, sp.rows[q[1]], SPATIAL_KEY))
                    = KeyString(Cell(co, co.rows[q[2]], CONSUMER_KEY)))
    IN  [k \in 1..Len(hit) |-> sp.rows[hit[k][1]] \o co.rows[hit[k][2]]]

\* C8: the rows the join of one source adds to processed_data are the
\* pairs of a spatial row and a consumer row whose keys are equal after
\* both are normalized to strings, no more and no fewer.
C8_JoinAddsStringEqualPairs ==
    [][(SourceDone /\ Last.committed) =>
          SubSeq(processed_data'.rows, Len(processed_data.rows) + 1,
                 Len(processed_data'.rows))
            = StringKeyJoin(spatial_temp', consumer_temp')]_vars

\* The number a month or a capacity counts as: 0 when NULL or not a number.
NumericOrZero(v) ==
    CASE v.t = "int" -> RealV(v.n, 1)
      [] v.t = "real" -> v
      [] v.t = "text" /\ IsNumericLiteral(v.s) ->
            LET p == NumPrefix(v.s) IN RealV(p.num, p.den)
      [] OTHER -> RealV(0, 1)

RECURSIVE SumOfMonths(_, _)
SumOfMonths(row, k) ==
    IF k = 0 THEN RealV(0, 1)
    ELSE RealAdd(SumOfMonths(row, k - 1),
                 NumericOrZero(Cell(processed_data, row, ENE_COLS[k])))

\* C9: once process_analytics has committed, in every row ENE_TOT is the
\* sum of the twelve months with a NULL or non-numeric month counted as 0,
\* ENE_MED is ENE_TOT / 12 and DEM is CAR_INST, 0 when NULL or non-numeric.
C9_AnalyticsValues ==
    analytics = "committed" =>
        \A i \in 1..Len(processed_data.rows) :
            LET row == processed_data.rows[i]
            IN  /\ Cell(processed_data, row, "ENE_TOT") = SumOfMonths(row, 12)
                /\ Cell(processed_data, row, "ENE_MED")
                      = RealDiv(SumOfMonths(row, 12), 12)
                /\ Cell(processed_data, row, "DEM")
                      = NumericOrZero(Cell(processed_data, row, "CAR_INST"))

\* C10: when processed_data lacks some of ENE_01..ENE_12 or CAR_INST,
\* process_analytics still commits and every row ends with ENE_TOT, ENE_MED
\* and DEM set.
C10_ToleratesMissingColumns ==
    [][(/\ pc = "analytics"
        /\ Exists(processed_data)
        /\ \E c \in {ENE_COLS[k] : k \in 1..12} \cup {"CAR_INST"} :
              ~HasCol(processed_data, c))
       => /\ analytics' = "committed"
          /\ \A i \in 1..Len(processed_data'.rows) :
                \A c \in {"ENE_TOT", "ENE_MED", "DEM"} :
                    /\ HasCol(processed_data', c)
                    /\ Cell(processed_data', processed_data'.rows[i], c).t # "null"]_vars

\* ------------------------------------------------------------------ grid claims
\* The records the arithmetic strategy is to place: the rows of
\* processed_data with a longitude and a latitude.
PlacedRows ==
    {i \in 1..Len(processed_data.rows) :
        /\ Cell(processed_data, processed_data.rows[i], "longitude").t # "null"
        /\ Cell(processed_data, processed_data.rows[i], "latitude").t # "null"}

Lon(i) == Cell(processed_data, processed_data.rows[i], "longitude")
Lat(i) == Cell(processed_data, processed_data.rows[i], "latitude")

\* lo <= v < lo + grid_cell_size_deg
InHalfOpen(v, lo) ==
    /\ ~RealLess(v, lo)
    /\ RealLess(v, RealAdd(lo, RealV(GRID_CELL_SIZE_DEG, 1)))

\* Record i lies in the square [cell_xmin, cell_xmin + size) x
\* [cell_ymin, cell_ymin + size) rebuilt for cell c.
InCell(c, i) == InHalfOpen(Lon(i), c.cell_xmin) /\ InHalfOpen(Lat(i), c.cell_ymin)

RECURSIVE SumPointCount(_)
SumPointCount(cells) ==
    IF cells = {} THEN 0
    ELSE LET c == CHOOSE d \in cells : TRUE
         IN  c.point_count + SumPointCount(cells \ {c})

\* generate_grid_map went as far as its aggregation query: the four bounds
\* it read are all truthy.
AggregationQueryRan ==
    /\ pc \in {"save", "done"}
    /\ Exists(processed_data)
    /\ HasCol(processed_data, "longitude")
    /\ Truthy(MinOf(processed_data, "longitude"))
    /\ Truthy(MinOf(processed_data, "latitude"))
    /\ Truthy(MaxOf(processed_data, "longitude"))
    /\ Truthy(MaxOf(processed_data, "latitude"))

OnCellEdge(v, lo) ==
    /\ v # lo
    /\ (v.n * lo.d - lo.n * v.d) % (v.d * lo.d * GRID_CELL_SIZE_DEG) = 0

\* lo <= v <= lo + grid_cell_size_deg
InClosed(v, lo) ==
    /\ ~RealLess(v, lo)
    /\ ~RealLess(RealAdd(lo, RealV(GRID_CELL_SIZE_DEG, 1)), v)

EntryOf(m, k) ==
    IF \E c \in m.cells : c.ix = k[1] /\ c.iy = k[2]
    THEN LET c == CHOOSE d \in m.cells : d.ix = k[1] /\ d.iy = k[2]
         IN  [value |-> c.value, point_count |-> c.point_count]
    ELSE [value |-> Null, point_count |-> 0]

\* The records on the boundary of the cell with index k: on or inside its
\* closed square, and on a lattice line in one direction at least.
OnBoundaryOf(k) ==
    LET xmin == MinOf(processed_data, "longitude")
        ymin == MinOf(processed_data, "latitude")
        x0 == RealAdd(xmin, RealV(k[1] * GRID_CELL_SIZE_DEG, 1))
        y0 == RealAdd(ymin, RealV(k[2] * GRID_CELL_SIZE_DEG, 1))
        x1 == RealAdd(x0, RealV(GRID_CELL_SIZE_DEG, 1))
        y1 == RealAdd(y0, RealV(GRID_CELL_SIZE_DEG, 1))
    IN  {i \in PlacedRows :
            /\ InClosed(Lon(i), x0) /\ InClosed(Lat(i), y0)
            /\ Lon(i) = x0 \/ Lon(i) = x1 \/ Lat(i) = y0 \/ Lat(i) = y1}

\* The three strategies have run on the enriched relation, none of them
\* stopped by a failure of its own.
ThreeStrategiesRan ==
    /\ pc \in {"save", "done"}
    /\ analytics = "committed"
    /\ Exists(grid_temp) =>
          /\ HasCol(grid_temp, "geom")
          /\ \A j \in 1..Len(grid_temp.rows) :
                Cell(grid_temp, grid_temp.rows[j], "geom").t = "polygon"

\* C12: on the same enriched relation the per-cell strategy and the bulk
\* join strategy return the same (value, point_count) for every cell index,
\* and the arithmetic strategy returns that too for every cell that has no
\* record on its boundary; on a cell with records on its boundary the
\* arithmetic point_count exceeds the other two by at most the number of
\* those records.
C12_StrategiesAgreeOffBoundaries ==
    ThreeStrategiesRan =>
        LET idx3 == {<<c.ix, c.iy>> :
                        c \in map_v1.cells \cup map_v2.cells \cup interactive_map.cells}
        IN  /\ map_v1.made = map_v2.made
            /\ \A k \in idx3 :
                 /\ EntryOf(map_v1, k) = EntryOf(map_v2, k)
                 /\ OnBoundaryOf(k) = {} => EntryOf(interactive_map, k) = EntryOf(map_v1, k)
                 /\ EntryOf(interactive_map, k).point_count
                       - EntryOf(map_v1, k).point_count
                          \in 0..Cardinality(OnBoundaryOf(k))

\* The three strategies returned maps that agree on a cell with data and no
\* record on its boundary, and differ on another cell, from a relation
\* whose base CRS makes the lattice strategies transform their geometries.
C12_Witness ==
    /\ ThreeStrategiesRan
    /\ base_crs = "EPSG:4674"
    /\ map_v1.made /\ map_v2.made /\ interactive_map.made
    /\ \E c \in map_v1.cells :
          /\ OnBoundaryOf(<<c.ix, c.iy>>) = {}
          /\ c.point_count >= 1
          /\ c.ix >= 1
    /\ \E c \in interactive_map.cells :
          EntryOf(map_v1, <<c.ix, c.iy>>) # EntryOf(interactive_map, <<c.ix, c.iy>>)

\* processed_data holds the four records of the scenario, at (0, 0),
\* (0.5, 0.5), (1.5, 0.5) and (1.5, 1.5) degrees, the cell being one degree.
ScenarioRelation ==
    /\ Exists(processed_data)
    /\ HasCol(processed_data, "longitude")
    /\ Cardinality(PlacedRows) = 4
    /\ Len(processed_data.rows) = 4
    /\ {<<Lon(i), Lat(i)>> : i \in PlacedRows} =
          {<<RealV(p[1], 1), RealV(p[2], 1)>> : p \in ScenarioPlaces}

\* C13: grid aggregation of the four points of the scenario returns the
\* point counts (0,0): 2, (1,0): 1, (1,1): 1 and nothing for the empty cell
\* (0,1).
C13_ScenarioPointCounts ==
    (ScenarioRelation /\ pc \in {"save", "done"}) =>
        /\ interactive_map.made
        /\ EntryOf(interactive_map, <<0, 0>>).point_count = 2
        /\ EntryOf(interactive_map, <<1, 0>>).point_count = 1
        /\ EntryOf(interactive_map, <<1, 1>>).point_count = 1
        /\ EntryOf(interactive_map, <<0, 1>>).point_count = 0

\* ------------------------------------------------------------------ load claims, continued
\* load_and_union_data run on the paths with no call failing for a reason
\* outside the sources: the loop from the state [store, base, inserted].
RECURSIVE LoopOver(_, _, _)
LoopOver(paths, s, rp) ==
    IF paths = <<>> THEN s
    ELSE LET o == LoadSource(Head(paths), s.store, s.base, rp, "none", TRUE)
         IN  LoopOver(Tail(paths),
                      [store |-> o.store, base |-> o.base,
                       inserted |-> s.inserted \/ o.committed], rp)

\* processed_data as that run leaves it, the index / coordinate step done.
RerunFromEmptyStore(paths, rp) ==
    LET s == LoopOver(paths,
                 [store |-> [spatial_temp |-> NoTable, consumer_temp |-> NoTable,
                             processed_data |-> NoTable, indexes |-> {}],
                  base |-> InitialBaseCrs(rp), inserted |-> FALSE], rp)
    IN  IF s.inserted /\ ToEpsg(s.base) # 0
        THEN WithCoordinateColumns(s.store.processed_data, s.base)
        ELSE s.store.processed_data

\* The same columns and the same rows, each as many times.
SameRelation(a, b) ==
    /\ a.cols = b.cols
    /\ Len(a.rows) = Len(b.rows)
    /\ \A i \in 1..Len(a.rows) :
          Cardinality({j \in 1..Len(a.rows) : a.rows[j] = a.rows[i]})
             = Cardinality({j \in 1..Len(b.rows) : b.rows[j] = a.rows[i]})

\* The orders in which the same set of paths may be enumerated.
Reorderings(paths) ==
    {q \in PathLists :
        /\ Len(q) = Len(paths)
        /\ {q[i] : i \in 1..Len(q)} = {paths[i] : i \in 1..Len(paths)}}

\* C14: when load_and_union_data has run on the sources with nothing
\* failing from outside, a second run on the same sources from an empty
\* store, in the same or in any other order of the paths, leaves the same
\* processed_data: the same columns and the same multiset of rows.
C14_RerunYieldsSameRelation ==
    (pc = "analytics"
        /\ processed_data = RerunFromEmptyStore(gdb_paths, reproject)) =>
        \A q \in Reorderings(gdb_paths) :
            SameRelation(processed_data, RerunFromEmptyStore(q, reproject))

\* C15: when no candidate path loads SpatiaLite, the run stops at the
\* initialization of the database: no source is gone through or joined, no
\* store is set up, neither the index / coordinate step nor the analytics
\* nor the grid stage runs, and no output file is written.
C15_NoSpatialiteAbortsRun ==
    ~spatialite_found =>
        /\ pc \in {"start", "aborted", "done"}
        /\ pc = "done" => gdb_paths = <<>>
        /\ ~engine
        /\ result = <<>>
        /\ ~data_was_inserted
        /\ ~Exists(spatial_temp) /\ ~Exists(consumer_temp) /\ ~Exists(processed_data)
        /\ postmerge = "not_run"
        /\ analytics = "not_run"
        /\ absent_access = {}
        /\ ~interactive_map.made
        /\ ~output_written

\* The run was handed two geodatabases and stopped for want of SpatiaLite.
C15_Witness ==
    /\ pc = "aborted"
    /\ ~spatialite_found
    /\ Len(gdb_paths) = 2

\* C16: in a run that merged some source, the index / coordinate step on
\* processed_data is attempted once every source has been gone through and
\* before the grid stage; the grid stage returns a map only from a relation
\* on which the step was committed, with the spatial index and the two
\* coordinate columns in place; when the step failed and was rolled back the
\* grid stage returns no map and no output file is written.
C16_PostMergeBeforeGrid ==
    /\ (data_was_inserted /\ pc \in {"analytics", "grid", "save", "done"}) =>
          /\ postmerge \in {"committed", "failed"}
          /\ Len(result) = Len(gdb_paths)
    /\ postmerge = "committed" =>
          /\ idx > Len(gdb_paths)
          /\ "idx_processed_data_geom" \in indexes
          /\ HasCol(processed_data, "longitude") /\ HasCol(processed_data, "latitude")
    /\ interactive_map.made => postmerge = "committed"
    /\ postmerge = "failed" => ~interactive_map.made /\ ~output_written

\* The step failed after sources were merged, its rollback left the columns
\* it had added, and the run ended with no map.
C16_Witness ==
    /\ pc = "done"
    /\ data_was_inserted
    /\ postmerge = "failed"
    /\ HasCol(processed_data, "longitude")
    /\ Len(processed_data.rows) >= 2

\* The rows a pass appended to processed_data.
AppendedRows ==
    IF Exists(processed_data)
    THEN SubSeq(processed_data'.rows, Len(processed_data.rows) + 1,
                Len(processed_data'.rows))
    ELSE processed_data'.rows

\* The spatial relation of source s with the geometries as its layer holds
\* them, in the CRS of the layer.
OwnSpatialTable(s) ==
    SpatialTable([crs |-> Catalog[s].crs, rows |-> ValidFeatures(Catalog[s].features)])

\* C17: under the first-observed policy a pass over a source whose CRS
\* differs from the base CRS is warned about and otherwise goes exactly as
\* the pass would with the base CRS equal to the CRS of the source: the same
\* staging relations, the same outcome and the same processed_data. The
\* source is staged with the geometries as its layer holds them, not
\* reprojected, and a pass that commits appends the rows of the join of that
\* relation with the consumer rows of the source.
C17_MismatchWarnedAndJoinedAsIs ==
    [][(SourceDone /\ ~reproject /\ Last.mismatch) =>
          /\ Catalog[Last.src].crs # base_crs
          /\ \E fault \in Faults, ddl \in BOOLEAN :
               \E o \in {LoadSource(Last.src, Store, Catalog[Last.src].crs,
                                    reproject, fault, ddl)} :
                   /\ ~o.mismatch
                   /\ o.outcome = Last.outcome
                   /\ o.committed = Last.committed
                   /\ o.store.spatial_temp = spatial_temp'
                   /\ o.store.consumer_temp = consumer_temp'
                   /\ o.store.processed_data = processed_data'
          /\ Last.outcome \in {"no_consumer_layers", "failed_join", "joined"} =>
                spatial_temp' = OwnSpatialTable(Last.src)
          /\ Last.committed =>
                AppendedRows =
                    JoinSelect(OwnSpatialTable(Last.src),
                               ConsumerTable(Catalog[Last.src])).rows
      ]_vars

\* A source in a CRS other than the base CRS was warned about and joined,
\* and its rows are in processed_data after those of an earlier source.
C17_Witness ==
    /\ ~reproject
    /\ Len(result) = 2
    /\ result[1].committed
    /\ result[2].mismatch /\ result[2].committed /\ result[2].outcome = "joined"
    /\ Catalog[result[2].src].crs # base_crs
    /\ Len(processed_data.rows) >= 7

\* ------------------------------------------------------------------ grid claims, continued
\* Some record with a longitude and a latitude lies on or inside the square
\* of cell c.
HoldsARecord(c) ==
    \E i \in PlacedRows :
        InClosed(Lon(i), c.cell_xmin) /\ InClosed(Lat(i), c.cell_ymin)

\* C18: whatever each of the three strategies returned, every cell of it has
\* point_count >= 1 and holds a record, and a strategy that found no cell
\* with data returned no map: a map that was made has a cell, and no cell
\* is kept where no map was made.
C18_OnlyCellsWithData ==
    \A m \in {map_v1, map_v2, interactive_map} :
        /\ m.made <=> m.cells # {}
        /\ \A c \in m.cells :
              /\ c.point_count >= 1
              /\ HoldsARecord(c)

\* The three strategies returned a map each, over a lattice with more cells
\* than the maps show.
C18_Witness ==
    /\ pc = "done"
    /\ map_v1.made /\ map_v2.made /\ interactive_map.made
    /\ Exists(grid_temp)
    /\ Len(grid_temp.rows) > Cardinality(map_v1.cells)
    /\ Len(grid_temp.rows) > Cardinality(map_v2.cells)

\* ------------------------------------------------------------------ load claims: the staging relations
\* The pass that just ended went into the transaction of the join: the join
\* ran, or a statement of the transaction before it failed.
JoinTransactionRan ==
    /\ SourceDone
    /\ Last.outcome \in {"joined", "failed_join"}

\* What the two layers of source s stage under the policy rp.
StagedSpatial(s, rp) ==
    SpatialTable(Reconcile([crs |-> Catalog[s].crs,
                            rows |-> ValidFeatures(Catalog[s].features)], rp))

StagedConsumer(s) == ConsumerTable(Catalog[s])

\* C19: in a pass of the loop that goes into the join, spatial_temp and
\* consumer_temp both hold the rows of the source of that pass, whatever the
\* passes before left in them, and the rows a committed join appends to
\* processed_data are those of the join of the two relations of that source.
C19_JoinReadsOneSource ==
    [][JoinTransactionRan =>
          /\ spatial_temp' = StagedSpatial(Last.src, reproject)
          /\ consumer_temp' = StagedConsumer(Last.src)
          /\ Last.committed =>
                AppendedRows = JoinSelect(StagedSpatial(Last.src, reproject),
                                          StagedConsumer(Last.src)).rows
      ]_vars

\* A source with no consumer layer replaced spatial_temp alone, and the
\* source after it was joined and committed.
C19_Witness ==
    /\ Len(result) = 2
    /\ result[1].outcome = "no_consumer_layers"
    /\ result[2].outcome = "joined" /\ result[2].committed
    /\ Len(processed_data.rows) >= 1
    /\ spatial_temp = StagedSpatial(result[2].src, reproject)
    /\ consumer_temp = StagedConsumer(result[2].src)

====
